---- MODULE Spec2Model ----
(***************************************************************************)
(* Model of src/setup/postgres-reset.py: the reset workflow main() and the *)
(* functions it calls, over an environment made of the host platform, the  *)
(* pg_hba.conf file and its .backup copy, the PostgreSQL service and the   *)
(* role's stored password.                                                 *)
(*                                                                         *)
(* A file's content is the sequence of its lines.  A line is the tuple     *)
(* <<type, database, user, address, method>>; a comment line has type "#"  *)
(* and its text in the second field, a blank line has five empty fields.   *)
(*                                                                         *)
(* The psycopg2 availability check of main() (lines 283-292) is not a      *)
(* step of the model: the module-level import of line 11 has succeeded     *)
(* whenever main() runs, so the check never takes its failure branch.      *)
(***************************************************************************)
EXTENDS Naturals, Integers, Sequences, FiniteSets, TLC

\* ---------------------------------------------------------------- bounds
\* number of successive invocations of the script that are explored
MaxRuns == 2
\* number of writes, over all the invocations, that fail after they began and
\* leave a file cut short
MaxTornWrites == 1

\* ------------------------------------------------------------- constants
None == "None"
NoPassword == "<none>"
NewPassword == "1"

Comment(text) == <<"#", text, "", "", "">>
Blank == <<"", "", "", "", "">>

\* the template written by reset_postgres_auth
trust_config ==
  << Comment("TYPE  DATABASE        USER            ADDRESS                 METHOD"),
     Comment("Allow local connections with trust (for reset)"),
     <<"local", "all", "all", "", "trust">>,
     <<"host", "all", "all", "127.0.0.1/32", "trust">>,
     <<"host", "all", "all", "::1/128", "trust">> >>

\* the template written by create_secure_pg_hba
secure_config ==
  << Comment("TYPE  DATABASE        USER            ADDRESS                 METHOD"),
     Comment("Local connections"),
     <<"local", "all", "postgres", "", "md5">>,
     <<"local", "all", "all", "", "md5">>,
     Blank,
     Comment("IPv4 local connections:"),
     <<"host", "all", "postgres", "127.0.0.1/32", "md5">>,
     <<"host", "all", "all", "127.0.0.1/32", "md5">>,
     Blank,
     Comment("IPv6 local connections:"),
     <<"host", "all", "postgres", "::1/128", "md5">>,
     <<"host", "all", "all", "::1/128", "md5">> >>

\* a policy file as a distribution ships it: peer on the socket, scram on
\* the loopback addresses
distro_config ==
  << Comment("TYPE  DATABASE        USER            ADDRESS                 METHOD"),
     <<"local", "all", "postgres", "", "peer">>,
     <<"host", "all", "all", "127.0.0.1/32", "scram-sha-256">>,
     <<"host", "all", "all", "::1/128", "scram-sha-256">> >>

\* the policy files the first run may find on disk; a later run finds what
\* the run before it left, the templates and files cut short among them
Originals == {distro_config}

\* candidate lists of find_postgres_service and find_postgres_data_dir
WindowsServices ==
  <<"postgresql-x64-14", "postgresql-x64-15", "postgresql-x64-16", "PostgreSQL">>

WindowsPaths ==
  <<"C:\\Program Files\\PostgreSQL\\14\\data", "C:\\Program Files\\PostgreSQL\\15\\data",
    "C:\\Program Files\\PostgreSQL\\16\\data", "C:\\PostgreSQL\\data">>

LinuxPaths ==
  <<"/var/lib/postgresql/data", "/var/lib/pgsql/data", "/usr/local/var/postgres">>

DarwinPaths ==
  <<"/usr/local/var/postgres", "/opt/homebrew/var/postgres",
    "/Library/PostgreSQL/14/data", "/Library/PostgreSQL/15/data">>

\* the hosts the script is run on: platform.system(), the Windows services
\* that answer `sc query`, and the directories that exist
Hosts ==
  { [system |-> "linux",   services |-> {}, paths |-> {"/var/lib/pgsql/data"}],
    [system |-> "linux",   services |-> {}, paths |-> {}],
    [system |-> "darwin",  services |-> {}, paths |-> {"/opt/homebrew/var/postgres"}],
    [system |-> "windows", services |-> {"postgresql-x64-16", "PostgreSQL"},
                           paths |-> {"C:\\Program Files\\PostgreSQL\\16\\data"}],
    [system |-> "windows", services |-> {}, paths |-> {"C:\\PostgreSQL\\data"}],
    [system |-> "freebsd", services |-> {}, paths |-> {"/var/lib/postgresql/data"}] }

VARIABLES
  host,            \* the platform the script runs on (never changes)
  hbaExists, hba,  \* pg_hba.conf in the data directory: presence, content
  backupExists, backup,   \* pg_hba.conf.backup: presence, content
  running,         \* the PostgreSQL service is up
  loaded,          \* the policy the running service read when it started
  password,        \* the stored password of role postgres
  testdb,          \* database testdb exists
  openConns,       \* connections opened and not closed by the script
  pc,              \* position of main()
  runs,            \* invocations of the script so far
  calls,           \* the calls main() made in this run, in order
  result,          \* "none", "Succeeded" or "Failed"
  exitCode,        \* process exit code of the run, -1 while it runs
  preHbaExists, preHba,        \* pg_hba.conf when this run started
  preBackupExists, preBackup,  \* pg_hba.conf.backup when this run started
  prevResult,      \* result of the run before this one, "none" for the first
  tornWrites       \* writes that were cut short so far, over all the runs

vars == <<host, hbaExists, hba, backupExists, backup, running, loaded, password,
          testdb, openConns, pc, runs, calls, result, exitCode,
          preHbaExists, preHba, preBackupExists, preBackup, prevResult,
          tornWrites>>

\* ------------------------------------------------------------- helpers
RECURSIVE FirstIn(_, _, _)
\* first element of list, from index i on, that is in the set s, else None
FirstIn(list, s, i) ==
  IF i > Len(list) THEN None
  ELSE IF list[i] \in s THEN list[i]
  ELSE FirstIn(list, s, i + 1)

\* the first n lines of a content
Prefix(content, n) == SubSeq(content, 1, IF n < Len(content) THEN n ELSE Len(content))

\* the proper beginnings of every word of the two templates and of
\* distro_config, and of the text of every comment line (without trailing
\* blanks), shortest first
PrefixTable ==
  ("local" :> <<
      "l", "lo", "loc", "loca" >>) @@
  ("all" :> <<
      "a", "al" >>) @@
  ("trust" :> <<
      "t", "tr", "tru", "trus" >>) @@
  ("host" :> <<
      "h", "ho", "hos" >>) @@
  ("127.0.0.1/32" :> <<
      "1", "12", "127", "127.", "127.0", "127.0.", "127.0.0", "127.0.0.", "127.0.0.1",
      "127.0.0.1/", "127.0.0.1/3" >>) @@
  ("::1/128" :> <<
      ":", "::", "::1", "::1/", "::1/1", "::1/12" >>) @@
  ("postgres" :> <<
      "p", "po", "pos", "post", "postg", "postgr", "postgre" >>) @@
  ("md5" :> <<
      "m", "md" >>) @@
  ("peer" :> <<
      "p", "pe", "pee" >>) @@
  ("scram-sha-256" :> <<
      "s", "sc", "scr", "scra", "scram", "scram-", "scram-s", "scram-sh", "scram-sha",
      "scram-sha-", "scram-sha-2", "scram-sha-25" >>) @@
  ("TYPE  DATABASE        USER            ADDRESS                 METHOD" :> <<
      "T", "TY", "TYP", "TYPE", "TYPE  D", "TYPE  DA", "TYPE  DAT", "TYPE  DATA",
      "TYPE  DATAB", "TYPE  DATABA", "TYPE  DATABAS", "TYPE  DATABASE",
      "TYPE  DATABASE        U", "TYPE  DATABASE        US", "TYPE  DATABASE        USE",
      "TYPE  DATABASE        USER", "TYPE  DATABASE        USER            A",
      "TYPE  DATABASE        USER            AD",
      "TYPE  DATABASE        USER            ADD",
      "TYPE  DATABASE        USER            ADDR",
      "TYPE  DATABASE        USER            ADDRE",
      "TYPE  DATABASE        USER            ADDRES",
      "TYPE  DATABASE        USER            ADDRESS",
      "TYPE  DATABASE        USER            ADDRESS                 M",
      "TYPE  DATABASE        USER            ADDRESS                 ME",
      "TYPE  DATABASE        USER            ADDRESS                 MET",
      "TYPE  DATABASE        USER            ADDRESS                 METH",
      "TYPE  DATABASE        USER            ADDRESS                 METHO" >>) @@
  ("Allow local connections with trust (for reset)" :> <<
      "A", "Al", "All", "Allo", "Allow", "Allow l", "Allow lo", "Allow loc", "Allow loca",
      "Allow local", "Allow local c", "Allow local co", "Allow local con",
      "Allow local conn", "Allow local conne", "Allow local connec", "Allow local connect",
      "Allow local connecti", "Allow local connectio", "Allow local connection",
      "Allow local connections", "Allow local connections w", "Allow local connections wi",
      "Allow local connections wit", "Allow local connections with",
      "Allow local connections with t", "Allow local connections with tr",
      "Allow local connections with tru", "Allow local connections with trus",
      "Allow local connections with trust", "Allow local connections with trust (",
      "Allow local connections with trust (f", "Allow local connections with trust (fo",
      "Allow local connections with trust (for", "Allow local connections with trust (for r",
      "Allow local connections with trust (for re",
      "Allow local connections with trust (for res",
      "Allow local connections with trust (for rese",
      "Allow local connections with trust (for reset" >>) @@
  ("Local connections" :> <<
      "L", "Lo", "Loc", "Loca", "Local", "Local c", "Local co", "Local con", "Local conn",
      "Local conne", "Local connec", "Local connect", "Local connecti", "Local connectio",
      "Local connection" >>) @@
  ("IPv4 local connections:" :> <<
      "I", "IP", "IPv", "IPv4", "IPv4 l", "IPv4 lo", "IPv4 loc", "IPv4 loca", "IPv4 local",
      "IPv4 local c", "IPv4 local co", "IPv4 local con", "IPv4 local conn",
      "IPv4 local conne", "IPv4 local connec", "IPv4 local connect", "IPv4 local connecti",
      "IPv4 local connectio", "IPv4 local connection", "IPv4 local connections" >>) @@
  ("IPv6 local connections:" :> <<
      "I", "IP", "IPv", "IPv6", "IPv6 l", "IPv6 lo", "IPv6 loc", "IPv6 loca", "IPv6 local",
      "IPv6 local c", "IPv6 local co", "IPv6 local con", "IPv6 local conn",
      "IPv6 local conne", "IPv6 local connec", "IPv6 local connect", "IPv6 local connecti",
      "IPv6 local connectio", "IPv6 local connection", "IPv6 local connections" >>)

\* the proper beginnings of a word, or of what is itself the beginning of a
\* word, shortest first
PrefixesOf(s) ==
  IF s \in DOMAIN PrefixTable THEN PrefixTable[s]
  ELSE IF \E t \in DOMAIN PrefixTable : \E i \in DOMAIN PrefixTable[t] : PrefixTable[t][i] = s
    THEN LET t == CHOOSE t \in DOMAIN PrefixTable :
                    \E i \in DOMAIN PrefixTable[t] : PrefixTable[t][i] = s
             i == CHOOSE i \in DOMAIN PrefixTable[t] : PrefixTable[t][i] = s
         IN SubSeq(PrefixTable[t], 1, i - 1)
  ELSE <<>>

\* the elements of a sequence
Range(seq) == {seq[i] : i \in DOMAIN seq}

\* what a line reads as when the write is cut inside it, after at least one
\* of its bytes: its words up to the cut, the last of them whole or cut at
\* any of its characters.  A line that lacks only its newline reads as the
\* whole line; a blank line has no byte but its newline.
TornLines(line) ==
  IF line[1] = "#"
    THEN { <<"#", p, "", "", "">> : p \in {"", line[2]} \cup Range(PrefixesOf(line[2])) }
  ELSE
    { [k \in 1..5 |-> IF k < c[1] THEN line[k] ELSE IF k = c[1] THEN c[2] ELSE ""] :
        c \in UNION { {j} \X ({line[j]} \cup Range(PrefixesOf(line[j]))) :
                      j \in {k \in 1..5 : line[k] # ""} } }

\* the contents a write of `content` can leave when it fails after the
\* open(path, 'w') truncated the file.  The write is cut at any byte: some
\* whole lines are left, followed or not by the beginning of the next line
PartialWrites(content) ==
  UNION { {Prefix(content, n)} \cup
          {Append(Prefix(content, n), t) : t \in TornLines(content[n + 1])} :
          n \in 0..(Len(content) - 1) }

RECURSIVE HostMethod(_, _)
\* the method of the first record of a policy that matches a TCP connection
\* from the loopback address for user postgres on database postgres
HostMethod(policy, i) ==
  IF i > Len(policy) THEN "reject"
  ELSE IF /\ policy[i][1] = "host"
          /\ policy[i][2] \in {"all", "postgres"}
          /\ policy[i][3] \in {"all", "postgres"}
       THEN policy[i][5]
  ELSE HostMethod(policy, i + 1)

\* psycopg2.connect(host="localhost", user="postgres", password=pw) can be
\* accepted by the service
CanConnect(pw) ==
  /\ running
  /\ LET m == HostMethod(loaded, 1)
     IN \/ m = "trust"
        \/ m \in {"md5", "scram-sha-256", "password"} /\ pw = password

\* ---------------------------------------------------- the called functions
find_postgres_service ==
  IF host.system = "windows" THEN FirstIn(WindowsServices, host.services, 1)
  ELSE IF host.system = "linux" THEN "postgresql"
  ELSE IF host.system = "darwin" THEN "postgresql"
  ELSE None

find_postgres_data_dir ==
  LET common_paths ==
        IF host.system = "windows" THEN WindowsPaths
        ELSE IF host.system = "linux" THEN LinuxPaths
        ELSE IF host.system = "darwin" THEN DarwinPaths
        ELSE <<>>
  IN FirstIn(common_paths, host.paths, 1)

\* stop_postgres(): cmdOk is the outcome of the service-manager command
stop_postgres(cmdOk) ==
  IF find_postgres_service = None THEN [ret |-> FALSE, running |-> running]
  ELSE IF cmdOk THEN [ret |-> TRUE, running |-> FALSE]
  ELSE [ret |-> FALSE, running |-> running]

\* start_postgres(): a service that was down reads the policy file as it
\* starts; starting a service that is up changes nothing
start_postgres(cmdOk) ==
  IF find_postgres_service = None
    THEN [ret |-> FALSE, running |-> running, loaded |-> loaded]
  ELSE IF cmdOk
    THEN [ret |-> TRUE, running |-> TRUE,
          loaded |-> IF running THEN loaded
                     ELSE IF hbaExists THEN hba ELSE <<>>]
  ELSE [ret |-> FALSE, running |-> running, loaded |-> loaded]

AuthIO == {"ok", "read_open_fail", "backup_open_fail", "read_fail",
           "backup_write_fail", "hba_open_fail", "hba_write_fail"}

\* reset_postgres_auth as it would be if the trust template were written
\* before the backup is taken: a failed backup leaves the template on disk
reset_postgres_auth_write_first(io, part) ==
  LET same == [hbaExists |-> hbaExists, hba |-> hba,
               backupExists |-> backupExists, backup |-> backup]
  IN
  IF find_postgres_data_dir = None
    THEN [ret |-> FALSE, why |-> "nodir"] @@ same
  ELSE IF ~hbaExists
    THEN [ret |-> FALSE, why |-> "nohba"] @@ same
  ELSE IF io \in {"read_open_fail", "backup_open_fail"}
    THEN [ret |-> FALSE, why |-> "backup", hbaExists |-> TRUE, hba |-> trust_config,
          backupExists |-> backupExists, backup |-> backup]
  ELSE IF io = "read_fail"
    THEN [ret |-> FALSE, why |-> "backup", hbaExists |-> TRUE, hba |-> trust_config,
          backupExists |-> TRUE, backup |-> <<>>]
  ELSE IF io = "backup_write_fail"
    THEN [ret |-> FALSE, why |-> "backup", hbaExists |-> TRUE, hba |-> trust_config,
          backupExists |-> TRUE, backup |-> part]
  ELSE IF io = "hba_open_fail"
    THEN [ret |-> FALSE, why |-> "write", hbaExists |-> hbaExists, hba |-> hba,
          backupExists |-> TRUE, backup |-> hba]
  ELSE IF io = "hba_write_fail"
    THEN [ret |-> FALSE, why |-> "write", hbaExists |-> TRUE, hba |-> part,
          backupExists |-> TRUE, backup |-> hba]
  ELSE [ret |-> TRUE, why |-> "ok", hbaExists |-> TRUE, hba |-> trust_config,
        backupExists |-> TRUE, backup |-> hba]

\* reset_postgres_auth as it would be if the backup copied the policy file
\* after the trust template had replaced it
reset_postgres_auth_late_backup(io, part) ==
  LET same == [hbaExists |-> hbaExists, hba |-> hba,
               backupExists |-> backupExists, backup |-> backup]
  IN
  IF find_postgres_data_dir = None
    THEN [ret |-> FALSE, why |-> "nodir"] @@ same
  ELSE IF ~hbaExists
    THEN [ret |-> FALSE, why |-> "nohba"] @@ same
  ELSE IF io \in {"read_open_fail", "backup_open_fail"}
    THEN [ret |-> FALSE, why |-> "backup"] @@ same
  ELSE IF io = "read_fail"
    THEN [ret |-> FALSE, why |-> "backup", hbaExists |-> hbaExists, hba |-> hba,
          backupExists |-> TRUE, backup |-> <<>>]
  ELSE IF io = "backup_write_fail"
    THEN [ret |-> FALSE, why |-> "backup", hbaExists |-> hbaExists, hba |-> hba,
          backupExists |-> TRUE, backup |-> part]
  ELSE IF io = "hba_open_fail"
    THEN [ret |-> FALSE, why |-> "write", hbaExists |-> hbaExists, hba |-> hba,
          backupExists |-> TRUE, backup |-> hba]
  ELSE IF io = "hba_write_fail"
    THEN [ret |-> FALSE, why |-> "write", hbaExists |-> TRUE, hba |-> part,
          backupExists |-> TRUE, backup |-> part]
  ELSE [ret |-> TRUE, why |-> "ok", hbaExists |-> TRUE, hba |-> trust_config,
        backupExists |-> TRUE, backup |-> trust_config]

\* reset_postgres_auth(): io is the file operation that fails (or "ok"),
\* part is what a failed write leaves in the file it was writing
reset_postgres_auth(io, part) ==
  LET same == [hbaExists |-> hbaExists, hba |-> hba,
               backupExists |-> backupExists, backup |-> backup]
  IN
  IF find_postgres_data_dir = None
    THEN [ret |-> FALSE, why |-> "nodir"] @@ same
  ELSE IF ~hbaExists
    THEN [ret |-> FALSE, why |-> "nohba"] @@ same
  ELSE IF io \in {"read_open_fail", "backup_open_fail"}
    THEN [ret |-> FALSE, why |-> "backup"] @@ same
  ELSE IF io = "read_fail"
    THEN [ret |-> FALSE, why |-> "backup", hbaExists |-> hbaExists, hba |-> hba,
          backupExists |-> TRUE, backup |-> <<>>]
  ELSE IF io = "backup_write_fail"
    THEN [ret |-> FALSE, why |-> "backup", hbaExists |-> hbaExists, hba |-> hba,
          backupExists |-> TRUE, backup |-> part]
  ELSE IF io = "hba_open_fail"
    THEN [ret |-> FALSE, why |-> "write", hbaExists |-> hbaExists, hba |-> hba,
          backupExists |-> TRUE, backup |-> hba]
  ELSE IF io = "hba_write_fail"
    THEN [ret |-> FALSE, why |-> "write", hbaExists |-> TRUE, hba |-> part,
          backupExists |-> TRUE, backup |-> hba]
  ELSE [ret |-> TRUE, why |-> "ok", hbaExists |-> TRUE, hba |-> trust_config,
        backupExists |-> TRUE, backup |-> hba]

\* what `part` ranges over for a given io of reset_postgres_auth
AuthParts(io) ==
  IF io = "backup_write_fail" THEN PartialWrites(hba)
  ELSE IF io = "hba_write_fail" THEN PartialWrites(trust_config)
  ELSE {<<>>}

RestoreIO == {"ok", "backup_open_fail", "hba_open_fail", "read_fail", "hba_write_fail"}

\* restore_postgres_auth()
restore_postgres_auth(io, part) ==
  LET same == [hbaExists |-> hbaExists, hba |-> hba]
  IN
  IF find_postgres_data_dir = None THEN [ret |-> FALSE, why |-> "nodir"] @@ same
  ELSE IF ~backupExists THEN [ret |-> FALSE, why |-> "nobackup"] @@ same
  ELSE IF io \in {"backup_open_fail", "hba_open_fail"}
    THEN [ret |-> FALSE, why |-> "open"] @@ same
  ELSE IF io = "read_fail"
    THEN [ret |-> FALSE, why |-> "write", hbaExists |-> TRUE, hba |-> <<>>]
  ELSE IF io = "hba_write_fail"
    THEN [ret |-> FALSE, why |-> "write", hbaExists |-> TRUE, hba |-> part]
  ELSE [ret |-> TRUE, why |-> "ok", hbaExists |-> TRUE, hba |-> backup]

RestoreParts(io) ==
  IF io = "hba_write_fail" THEN PartialWrites(backup) ELSE {<<>>}

SecureIO == {"ok", "hba_open_fail", "hba_write_fail"}

\* create_secure_pg_hba()
create_secure_pg_hba(io, part) ==
  LET same == [hbaExists |-> hbaExists, hba |-> hba]
  IN
  IF find_postgres_data_dir = None THEN [ret |-> FALSE, why |-> "nodir"] @@ same
  ELSE IF io = "hba_open_fail" THEN [ret |-> FALSE, why |-> "open"] @@ same
  ELSE IF io = "hba_write_fail"
    THEN [ret |-> FALSE, why |-> "write", hbaExists |-> TRUE, hba |-> part]
  ELSE [ret |-> TRUE, why |-> "ok", hbaExists |-> TRUE, hba |-> secure_config]

SecureParts(io) ==
  IF io = "hba_write_fail" THEN PartialWrites(secure_config) ELSE {<<>>}

PasswordOut == {"ok", "connect_fail", "alter_fail", "select_fail", "create_fail"}

\* the outcomes reset_postgres_password would have if CREATE DATABASE were
\* executed without the lookup of line 206: it raises when testdb exists
PasswordOutcomes_create_always ==
  IF ~CanConnect(NoPassword) THEN {"connect_fail"}
  ELSE IF testdb THEN PasswordOut \ {"ok"}
  ELSE PasswordOut

\* the outcomes of reset_postgres_password() the environment allows
PasswordOutcomes ==
  IF ~CanConnect(NoPassword) THEN {"connect_fail"}
  ELSE IF testdb THEN PasswordOut \ {"create_fail"}
  ELSE PasswordOut

\* reset_postgres_password as it would be without the autocommit of line
\* 197: a statement that raises aborts the transaction and the ALTER USER
\* before it is undone
reset_postgres_password_transactional(out, reclaim) ==
  IF out = "connect_fail"
    THEN [ret |-> FALSE, why |-> out, password |-> password, testdb |-> testdb,
          openConns |-> openConns]
  ELSE IF out \in {"alter_fail", "select_fail", "create_fail"}
    THEN [ret |-> FALSE, why |-> out, password |-> password, testdb |-> testdb,
          openConns |-> IF reclaim THEN openConns ELSE openConns + 1]
  ELSE [ret |-> TRUE, why |-> IF testdb THEN "ok" ELSE "created",
        password |-> NewPassword, testdb |-> TRUE, openConns |-> openConns]

\* reset_postgres_password as it would be if a failure of the lookup or of
\* CREATE DATABASE were caught on its own and not reported
reset_postgres_password_best_effort(out, reclaim) ==
  IF out = "connect_fail"
    THEN [ret |-> FALSE, why |-> out, password |-> password, testdb |-> testdb,
          openConns |-> openConns]
  ELSE IF out = "alter_fail"
    THEN [ret |-> FALSE, why |-> out, password |-> password, testdb |-> testdb,
          openConns |-> IF reclaim THEN openConns ELSE openConns + 1]
  ELSE IF out \in {"select_fail", "create_fail"}
    THEN [ret |-> TRUE, why |-> out, password |-> NewPassword, testdb |-> testdb,
          openConns |-> openConns]
  ELSE [ret |-> TRUE, why |-> IF testdb THEN "ok" ELSE "created",
        password |-> NewPassword, testdb |-> TRUE, openConns |-> openConns]

\* a connection that was opened and is dropped without conn.close(): the
\* interpreter may finalise the object when the frame is released (reclaim),
\* or the connection stays open until the process exits
Dropped(reclaim) == IF reclaim THEN openConns ELSE openConns + 1

\* reset_postgres_password(): the connection is autocommit, so a statement
\* that was executed stays in effect; conn.close() is reached only when no
\* statement raised.  The result tells whether CREATE DATABASE was executed
\* ("created") or skipped because testdb exists ("ok").
reset_postgres_password(out, reclaim) ==
  IF out = "connect_fail"
    THEN [ret |-> FALSE, why |-> out, password |-> password, testdb |-> testdb,
          openConns |-> openConns]
  ELSE IF out = "alter_fail"
    THEN [ret |-> FALSE, why |-> out, password |-> password, testdb |-> testdb,
          openConns |-> Dropped(reclaim)]
  ELSE IF out \in {"select_fail", "create_fail"}
    THEN [ret |-> FALSE, why |-> out, password |-> NewPassword, testdb |-> testdb,
          openConns |-> Dropped(reclaim)]
  ELSE [ret |-> TRUE, why |-> IF testdb THEN "ok" ELSE "created",
        password |-> NewPassword, testdb |-> TRUE, openConns |-> openConns]

TestOut == {"ok", "connect_fail", "query_fail"}

\* the outcomes of test_connection() the environment allows
TestOutcomes ==
  IF CanConnect(NewPassword) THEN TestOut ELSE {"connect_fail"}

\* test_connection()
test_connection(out, reclaim) ==
  IF out = "connect_fail" THEN [ret |-> FALSE, why |-> out, openConns |-> openConns]
  ELSE IF out = "query_fail"
    THEN [ret |-> FALSE, why |-> out, openConns |-> Dropped(reclaim)]
  ELSE [ret |-> TRUE, why |-> "ok", openConns |-> openConns]

\* ------------------------------------------------------------------ main
Call(fn, r, why) == [fn |-> fn, ok |-> r, why |-> why]

Init ==
  /\ host \in Hosts
  /\ hbaExists \in BOOLEAN
  /\ hba \in Originals
  /\ hbaExists = FALSE => hba = distro_config
  /\ backupExists = FALSE
  /\ backup = <<>>
  /\ running \in BOOLEAN
  /\ loaded = IF hbaExists THEN hba ELSE <<>>
  /\ password \in {"s3cret", NewPassword}
  /\ testdb \in BOOLEAN
  /\ openConns = 0
  /\ pc = "idle"
  /\ runs = 0
  /\ calls = <<>>
  /\ result = "none"
  /\ exitCode = -1
  /\ preHbaExists = hbaExists
  /\ preHba = hba
  /\ preBackupExists = backupExists
  /\ preBackup = backup
  /\ prevResult = "none"
  /\ tornWrites = 0

Env == <<host, password, testdb, openConns>>
Files == <<hbaExists, hba, backupExists, backup>>
Service == <<running, loaded>>
Pre == <<preHbaExists, preHba, preBackupExists, preBackup, prevResult>>

\* the file operations that fail in the middle of a write
TornIO == {"backup_write_fail", "hba_write_fail"}

\* the call that returned r under outcome io reached a write and the write
\* was cut short
Torn(io, r) == io \in TornIO /\ r.why \in {"backup", "write"}

\* a call of main() that works on the files, with outcome io and return r: a
\* write is cut short only while fewer than MaxTornWrites were, and is
\* counted when it is
FileOperation(io, r) ==
  /\ Torn(io, r) => tornWrites < MaxTornWrites
  /\ tornWrites' = IF Torn(io, r) THEN tornWrites + 1 ELSE tornWrites

\* main() returns value and the process exits (lines 345-346)
Return(value) ==
  /\ pc' = "done"
  /\ result' = IF value THEN "Succeeded" ELSE "Failed"
  /\ exitCode' = IF value THEN 0 ELSE 1

Continue(next) ==
  /\ pc' = next
  /\ UNCHANGED <<result, exitCode>>

\* the script is started: python postgres-reset.py.  It is a new process:
\* the exit of the previous one closed whatever connections it had left open.
\* It finds the files, the service and the database as the run before left
\* them, whatever its result.
invoke_main ==
  /\ pc \in {"idle", "done"}
  /\ runs < MaxRuns
  /\ runs' = runs + 1
  /\ pc' = "step1"
  /\ calls' = <<>>
  /\ result' = "none"
  /\ exitCode' = -1
  /\ preHbaExists' = hbaExists
  /\ preHba' = hba
  /\ preBackupExists' = backupExists
  /\ preBackup' = backup
  /\ prevResult' = result
  /\ openConns' = 0
  /\ UNCHANGED <<host, password, testdb, Files, Service, tornWrites>>

\* Step 1: stop_postgres(), failure tolerated
main_step1 ==
  /\ pc = "step1"
  /\ \E cmdOk \in BOOLEAN :
       LET r == stop_postgres(cmdOk) IN
       /\ running' = r.running
       /\ calls' = Append(calls, Call("stop_postgres", r.ret, "step1"))
  /\ Continue("step2")
  /\ UNCHANGED <<Env, Files, loaded, runs, tornWrites, Pre>>

\* Step 2: reset_postgres_auth(), failure ends the run
main_step2 ==
  /\ pc = "step2"
  /\ \E io \in AuthIO : \E part \in AuthParts(io) :
       LET r == reset_postgres_auth(io, part) IN
       /\ FileOperation(io, r)
       /\ hbaExists' = r.hbaExists
       /\ hba' = r.hba
       /\ backupExists' = r.backupExists
       /\ backup' = r.backup
       /\ calls' = Append(calls, Call("reset_postgres_auth", r.ret, r.why))
       /\ IF r.ret THEN Continue("step3") ELSE Return(FALSE)
  /\ UNCHANGED <<Env, Service, runs, Pre>>

\* step 3 as it would be if a failed start were tried again
main_step3_retry ==
  /\ pc = "step3"
  /\ \E cmdOk \in BOOLEAN :
       LET r == start_postgres(cmdOk) IN
       /\ running' = r.running
       /\ loaded' = r.loaded
       /\ calls' = Append(calls, Call("start_postgres", r.ret, "step3"))
       /\ IF r.ret THEN Continue("step4") ELSE Continue("step3")
  /\ UNCHANGED <<Env, Files, runs, tornWrites, Pre>>

\* Step 3: start_postgres(), failure ends the run
main_step3 ==
  /\ pc = "step3"
  /\ \E cmdOk \in BOOLEAN :
       LET r == start_postgres(cmdOk) IN
       /\ running' = r.running
       /\ loaded' = r.loaded
       /\ calls' = Append(calls, Call("start_postgres", r.ret, "step3"))
       /\ IF r.ret THEN Continue("step4") ELSE Return(FALSE)
  /\ UNCHANGED <<Env, Files, runs, tornWrites, Pre>>

\* step 4 as it would be if the rollback began with the restore instead of
\* the stop
main_step4_restore_first ==
  /\ pc = "step4"
  /\ \E out \in PasswordOutcomes : \E reclaim \in BOOLEAN :
       LET r == reset_postgres_password(out, reclaim) IN
       /\ password' = r.password
       /\ testdb' = r.testdb
       /\ openConns' = r.openConns
       /\ calls' = Append(calls, Call("reset_postgres_password", r.ret, r.why))
       /\ IF r.ret THEN Continue("step5_stop") ELSE Continue("rollback_restore")
  /\ UNCHANGED <<host, Files, Service, runs, tornWrites, Pre>>

\* Step 4: reset_postgres_password(), failure starts the rollback
main_step4 ==
  /\ pc = "step4"
  /\ \E out \in PasswordOutcomes : \E reclaim \in BOOLEAN :
       LET r == reset_postgres_password(out, reclaim) IN
       /\ password' = r.password
       /\ testdb' = r.testdb
       /\ openConns' = r.openConns
       /\ calls' = Append(calls, Call("reset_postgres_password", r.ret, r.why))
       /\ IF r.ret THEN Continue("step5_stop") ELSE Continue("rollback_stop")
  /\ UNCHANGED <<host, Files, Service, runs, tornWrites, Pre>>

\* rollback, line 316
main_rollback_stop ==
  /\ pc = "rollback_stop"
  /\ \E cmdOk \in BOOLEAN :
       LET r == stop_postgres(cmdOk) IN
       /\ running' = r.running
       /\ calls' = Append(calls, Call("stop_postgres", r.ret, "rollback"))
  /\ Continue("rollback_restore")
  /\ UNCHANGED <<Env, Files, loaded, runs, tornWrites, Pre>>

\* the rollback as it would be if a failed restore ended it
main_rollback_restore_abort ==
  /\ pc = "rollback_restore"
  /\ \E io \in RestoreIO : \E part \in RestoreParts(io) :
       LET r == restore_postgres_auth(io, part) IN
       /\ FileOperation(io, r)
       /\ hbaExists' = r.hbaExists
       /\ hba' = r.hba
       /\ calls' = Append(calls, Call("restore_postgres_auth", r.ret, r.why))
       /\ IF r.ret THEN Continue("rollback_start") ELSE Return(FALSE)
  /\ UNCHANGED <<Env, backupExists, backup, Service, runs, Pre>>

\* rollback, line 317
main_rollback_restore ==
  /\ pc = "rollback_restore"
  /\ \E io \in RestoreIO : \E part \in RestoreParts(io) :
       LET r == restore_postgres_auth(io, part) IN
       /\ FileOperation(io, r)
       /\ hbaExists' = r.hbaExists
       /\ hba' = r.hba
       /\ calls' = Append(calls, Call("restore_postgres_auth", r.ret, r.why))
  /\ Continue("rollback_start")
  /\ UNCHANGED <<Env, backupExists, backup, Service, runs, Pre>>

\* rollback, lines 318-319
main_rollback_start ==
  /\ pc = "rollback_start"
  /\ \E cmdOk \in BOOLEAN :
       LET r == start_postgres(cmdOk) IN
       /\ running' = r.running
       /\ loaded' = r.loaded
       /\ calls' = Append(calls, Call("start_postgres", r.ret, "rollback"))
  /\ Return(FALSE)
  /\ UNCHANGED <<Env, Files, runs, tornWrites, Pre>>

\* step 5 as it would be if a failed stop ended the run
main_step5_stop_fatal ==
  /\ pc = "step5_stop"
  /\ \E cmdOk \in BOOLEAN :
       LET r == stop_postgres(cmdOk) IN
       /\ running' = r.running
       /\ calls' = Append(calls, Call("stop_postgres", r.ret, "step5"))
       /\ IF r.ret THEN Continue("step5_secure") ELSE Return(FALSE)
  /\ UNCHANGED <<Env, Files, loaded, runs, tornWrites, Pre>>

\* Step 5, line 322
main_step5_stop ==
  /\ pc = "step5_stop"
  /\ \E cmdOk \in BOOLEAN :
       LET r == stop_postgres(cmdOk) IN
       /\ running' = r.running
       /\ calls' = Append(calls, Call("stop_postgres", r.ret, "step5"))
  /\ Continue("step5_secure")
  /\ UNCHANGED <<Env, Files, loaded, runs, tornWrites, Pre>>

\* Step 5, line 323
main_step5_secure ==
  /\ pc = "step5_secure"
  /\ \E io \in SecureIO : \E part \in SecureParts(io) :
       LET r == create_secure_pg_hba(io, part) IN
       /\ FileOperation(io, r)
       /\ hbaExists' = r.hbaExists
       /\ hba' = r.hba
       /\ calls' = Append(calls, Call("create_secure_pg_hba", r.ret, r.why))
  /\ Continue("step5_start")
  /\ UNCHANGED <<Env, backupExists, backup, Service, runs, Pre>>

\* Step 5, line 324
main_step5_start ==
  /\ pc = "step5_start"
  /\ \E cmdOk \in BOOLEAN :
       LET r == start_postgres(cmdOk) IN
       /\ running' = r.running
       /\ loaded' = r.loaded
       /\ calls' = Append(calls, Call("start_postgres", r.ret, "step5"))
  /\ Continue("step6")
  /\ UNCHANGED <<Env, Files, runs, tornWrites, Pre>>

\* step 6 as it would be if the result of test_connection were not looked at
main_step6_unchecked ==
  /\ pc = "step6"
  /\ \E out \in TestOutcomes : \E reclaim \in BOOLEAN :
       LET r == test_connection(out, reclaim) IN
       /\ openConns' = r.openConns
       /\ calls' = Append(calls, Call("test_connection", r.ret, r.why))
       /\ Return(TRUE)
  /\ UNCHANGED <<host, password, testdb, Files, Service, runs, tornWrites, Pre>>

\* Step 6: test_connection() decides the result of the run
main_step6 ==
  /\ pc = "step6"
  /\ \E out \in TestOutcomes : \E reclaim \in BOOLEAN :
       LET r == test_connection(out, reclaim) IN
       /\ openConns' = r.openConns
       /\ calls' = Append(calls, Call("test_connection", r.ret, r.why))
       /\ Return(r.ret)
  /\ UNCHANGED <<host, password, testdb, Files, Service, runs, tornWrites, Pre>>

Next ==
  \/ invoke_main
  \/ main_step1
  \/ main_step2
  \/ main_step3
  \/ main_step4
  \/ main_rollback_stop
  \/ main_rollback_restore
  \/ main_rollback_start
  \/ main_step5_stop
  \/ main_step5_secure
  \/ main_step5_start
  \/ main_step6

Spec == Init /\ [][Next]_vars

TypeOK ==
  /\ host \in Hosts
  /\ hbaExists \in BOOLEAN /\ backupExists \in BOOLEAN /\ running \in BOOLEAN
  /\ result \in {"none", "Succeeded", "Failed"}
  /\ exitCode \in {-1, 0, 1}
  /\ runs \in 0..MaxRuns
  /\ tornWrites \in 0..MaxTornWrites

\* ------------------------------------------------------------ properties
\* some call of this run to fn ended with the given result and detail
Called(fn, ok, why) ==
  \E i \in DOMAIN calls : calls[i].fn = fn /\ calls[i].ok = ok /\ calls[i].why = why

\* some call of this run to fn failed
FailedCall(fn) == \E i \in DOMAIN calls : calls[i].fn = fn /\ ~calls[i].ok

\* the policy file is as this run found it
PolicyAsFound == hbaExists = preHbaExists /\ hba = preHba

\* this run entered the rollback of lines 315-319
RollbackEntered == FailedCall("reset_postgres_password")

\* this run failed at or after the secure-policy write
SecurePhaseFailure ==
  \/ FailedCall("create_secure_pg_hba")
  \/ Called("start_postgres", FALSE, "step5")
  \/ FailedCall("test_connection")

\* C1: when a run has terminated, the policy file holds its pre-run content
\* or the secure template (and so never the trust template).
C1_TerminalPolicyOriginalOrSecure ==
  pc = "done" => (PolicyAsFound \/ hba = secure_config)

\* C2: when a run has terminated after the trust template was written and
\* start_postgres failed in step 3 or reset_postgres_password failed in
\* step 4, the policy file equals what the backup step captured.
C2_RollbackRestoresBackup ==
  (/\ pc = "done"
   /\ Called("reset_postgres_auth", TRUE, "ok")
   /\ \/ Called("start_postgres", FALSE, "step3")
      \/ FailedCall("reset_postgres_password"))
  => (hba = backup /\ hba = preHba)

\* C3: if the backup step of reset_postgres_auth failed, the policy file is
\* as the run found it and the run has ended Failed.
C3_BackupFailureLeavesPolicy ==
  Called("reset_postgres_auth", FALSE, "backup")
  => (PolicyAsFound /\ pc = "done" /\ result = "Failed" /\ Len(calls) = 2)

\* C3 witness: a run whose backup step failed while writing the backup file
C3_Witness ==
  /\ Called("reset_postgres_auth", FALSE, "backup")
  /\ backupExists /\ backup # hba
  /\ pc = "done"

\* C4: when a run has terminated after the secure write, the start that
\* follows it or the verification failed, the policy file is the secure
\* template.
C4_SecurePhaseFailureLeavesSecure ==
  (pc = "done" /\ SecurePhaseFailure) => (hbaExists /\ hba = secure_config)

\* C5: in every state, a policy file that differs from what the run found
\* comes with a backup file holding what the run found.
C5_BackupBeforeWrite ==
  ~PolicyAsFound => (backupExists /\ backup = preHba)

\* C5 witness: the trust template has just replaced a different original
C5_Witness ==
  /\ pc = "step3"
  /\ hba = trust_config /\ preHba # trust_config
  /\ backupExists /\ backup = preHba

\* C6: when a run ends Succeeded, the backup file holds the original content
\* and the policy file is the secure template.
C6_SucceededMeansSecureOnDisk ==
  (pc = "done" /\ result = "Succeeded")
  => (backupExists /\ backup = preHba /\ hbaExists /\ hba = secure_config)

\* C7: a run reports success (exit code 0) exactly when its last call was
\* test_connection and that call passed; a Failed run exits nonzero.
C7_SuccessIffVerified ==
  /\ pc = "done" =>
       /\ result \in {"Succeeded", "Failed"}
       /\ (result = "Succeeded") <=>
            (calls # <<>> /\ calls[Len(calls)] = Call("test_connection", TRUE, "ok"))
       /\ (exitCode = 0) <=> (result = "Succeeded")
       /\ result = "Failed" => exitCode # 0
  /\ pc # "done" => (result = "none" /\ exitCode = -1)

\* C7 witness: a run that was verified and reported success
C7_Witness ==
  /\ pc = "done" /\ result = "Succeeded" /\ exitCode = 0
  /\ Called("test_connection", TRUE, "ok")

\* C8: when a run has terminated after the secure write, the start that
\* follows it or the verification failed, its result is Failed.
C8_SecurePhaseFailureIsFailed ==
  (pc = "done" /\ SecurePhaseFailure) => result = "Failed"

\* C9: when a run has terminated on a host where the service name or the
\* data directory cannot be resolved, it has failed without writing the
\* policy file or the backup file and without attempting the rollback.
C9_LocateFailureAborts ==
  (/\ pc = "done"
   /\ (find_postgres_service = None \/ find_postgres_data_dir = None))
  => /\ result = "Failed"
     /\ PolicyAsFound
     /\ backupExists = preBackupExists /\ backup = preBackup
     /\ \A i \in DOMAIN calls : calls[i].fn # "restore_postgres_auth"

RollbackCalls == {"stop_postgres", "restore_postgres_auth", "start_postgres"}

\* C10: once reset_postgres_password has failed, every later call of the run
\* is one of restore_postgres_auth, stop_postgres and start_postgres, main
\* is in the rollback or has ended Failed, and when it has ended each of the
\* three has been called, whatever the others returned.
C10_RollbackRunsAllThenFails ==
  \A i \in DOMAIN calls :
    (calls[i].fn = "reset_postgres_password" /\ ~calls[i].ok) =>
      /\ \A j \in (i+1)..Len(calls) : calls[j].fn \in RollbackCalls
      /\ pc \in {"rollback_stop", "rollback_restore", "rollback_start", "done"}
      /\ pc = "done" =>
           /\ result = "Failed"
           /\ \A fn \in RollbackCalls : \E j \in (i+1)..Len(calls) : calls[j].fn = fn

\* C10 witness: a rollback whose stop and restore both failed and whose
\* start was still attempted
C10_Witness ==
  /\ pc = "done"
  /\ RollbackEntered
  /\ Called("stop_postgres", FALSE, "rollback")
  /\ FailedCall("restore_postgres_auth")
  /\ \E i \in DOMAIN calls : calls[i].fn = "start_postgres" /\ calls[i].why = "rollback"

\* C11: every connection opened by reset_postgres_password or
\* test_connection has been closed when the function has returned, so no
\* connection is open between two calls of main() or when the run has ended.
C11_ConnectionsClosed == openConns = 0

\* no call of this run has failed so far
AllOk == \A i \in DOMAIN calls : calls[i].ok

\* this run follows a run that ended Succeeded and left the secure template
SecondRun ==
  /\ runs >= 2
  /\ prevResult = "Succeeded"
  /\ preHbaExists /\ preHba = secure_config

\* C12: in a run that follows a successful run and starts with the secure
\* template on disk, as long as no call has failed: the credential change can
\* succeed (it overwrites the equal password and skips CREATE DATABASE), the
\* verification can succeed, and the run ends Succeeded with the secure
\* template on disk.
C12_RerunSucceeds ==
  (SecondRun /\ AllOk) =>
    /\ password = NewPassword /\ testdb
    /\ pc = "step4" =>
         /\ "ok" \in PasswordOutcomes
         /\ "create_fail" \notin PasswordOutcomes
         /\ reset_postgres_password("ok", FALSE) =
              [ret |-> TRUE, why |-> "ok", password |-> password,
               testdb |-> TRUE, openConns |-> openConns]
    /\ pc = "step6" => "ok" \in TestOutcomes
    /\ pc = "done" =>
         /\ result = "Succeeded"
         /\ hbaExists /\ hba = secure_config

\* C12 witness: a second run, after a successful first one, that has ended
\* Succeeded with all eight calls passing and CREATE DATABASE skipped
C12_Witness ==
  /\ SecondRun /\ AllOk
  /\ pc = "done" /\ result = "Succeeded"
  /\ Len(calls) = 8
  /\ Called("reset_postgres_password", TRUE, "ok")
  /\ hba = secure_config /\ loaded = secure_config

\* in this run ALTER USER was executed and the lookup of testdb or the
\* CREATE DATABASE that follows it raised
AuxiliaryFailed ==
  \E i \in DOMAIN calls :
    /\ calls[i].fn = "reset_postgres_password"
    /\ calls[i].why \in {"select_fail", "create_fail"}

\* C13 as stated: once the auxiliary-database sub-step has failed after a
\* successful ALTER USER, main does not roll back: it is not in the rollback,
\* restore_postgres_auth is not called, and when the run has ended the
\* secure-policy write has been attempted.
C13_AuxiliaryFailureProceeds ==
  AuxiliaryFailed =>
    /\ pc \notin {"rollback_stop", "rollback_restore", "rollback_start"}
    /\ \A i \in DOMAIN calls : calls[i].fn # "restore_postgres_auth"
    /\ pc = "done" => \E i \in DOMAIN calls : calls[i].fn = "create_secure_pg_hba"

\* C13 amended: once the auxiliary-database sub-step has failed after a
\* successful ALTER USER, reset_postgres_password has returned False and main
\* rolls back: it is in the rollback or has ended Failed after calling
\* restore_postgres_auth, and the secure-policy write and the verification
\* are never attempted.
C13_AuxiliaryFailureRollsBack ==
  AuxiliaryFailed =>
    /\ FailedCall("reset_postgres_password")
    /\ pc \in {"rollback_stop", "rollback_restore", "rollback_start", "done"}
    /\ \A i \in DOMAIN calls :
         calls[i].fn \notin {"create_secure_pg_hba", "test_connection"}
    /\ pc = "done" =>
         /\ result = "Failed"
         /\ \E i \in DOMAIN calls : calls[i].fn = "restore_postgres_auth"

\* C13 witness: CREATE DATABASE failed after the password was changed and
\* the run has ended after the rollback
C13_Witness ==
  /\ Called("reset_postgres_password", FALSE, "create_fail")
  /\ password = NewPassword /\ ~testdb
  /\ pc = "done" /\ result = "Failed"
  /\ \E i \in DOMAIN calls : calls[i].fn = "restore_postgres_auth"

\* the names of the calls made after reset_postgres_password failed
RollbackSequence ==
  LET i == CHOOSE k \in DOMAIN calls :
             calls[k].fn = "reset_postgres_password" /\ ~calls[k].ok
  IN [j \in 1..(Len(calls) - i) |-> calls[i + j].fn]

\* C14 as stated: when a run has ended after a rollback, the compensating
\* calls were made in the order restore_postgres_auth, stop_postgres,
\* start_postgres.
C14_RestoreThenStopStart ==
  (pc = "done" /\ RollbackEntered) =>
    RollbackSequence = <<"restore_postgres_auth", "stop_postgres", "start_postgres">>

\* C14 amended: the compensating calls are made in the order stop_postgres,
\* restore_postgres_auth, start_postgres: at every point of the rollback the
\* calls made so far are the beginning of that sequence, and all of it when
\* the run has ended.
C14_StopRestoreStart ==
  RollbackEntered =>
    LET order == <<"stop_postgres", "restore_postgres_auth", "start_postgres">>
        done == RollbackSequence
    IN /\ Len(done) <= 3
       /\ done = SubSeq(order, 1, Len(done))
       /\ pc = "rollback_stop" <=> Len(done) = 0
       /\ pc = "rollback_restore" <=> Len(done) = 1
       /\ pc = "rollback_start" <=> Len(done) = 2
       /\ pc = "done" <=> Len(done) = 3

\* C14 witness: a rollback that has ended, with the restore made after a
\* successful stop and before the start
C14_Witness ==
  /\ pc = "done" /\ RollbackEntered
  /\ Len(RollbackSequence) = 3
  /\ RollbackSequence[2] = "restore_postgres_auth"
  /\ Called("stop_postgres", TRUE, "rollback")
  /\ Called("restore_postgres_auth", TRUE, "ok")

\* C15: after a failed write of a template the policy file holds what it
\* held before the attempt: what the run found when the trust write of
\* reset_postgres_auth failed, the trust template when the secure write of
\* create_secure_pg_hba failed.
C15_FailedWriteLeavesContent ==
  /\ Called("reset_postgres_auth", FALSE, "write") => PolicyAsFound
  /\ (\E i \in DOMAIN calls :
        /\ calls[i].fn = "create_secure_pg_hba"
        /\ calls[i].why \in {"open", "write"})
     => (hbaExists /\ hba = trust_config)

\* C16: a failed stop does not end the run: after a failed stop in step 1
\* main is at step 2 or has called reset_postgres_auth, after a failed stop
\* in step 5 main is at the secure write or has called create_secure_pg_hba.
C16_FailedStopContinues ==
  /\ Called("stop_postgres", FALSE, "step1") =>
       \/ pc = "step2"
       \/ Len(calls) >= 2 /\ calls[2].fn = "reset_postgres_auth"
  /\ Called("stop_postgres", FALSE, "step5") =>
       \/ pc = "step5_secure"
       \/ Len(calls) >= 6 /\ calls[6].fn = "create_secure_pg_hba"

\* C16 witness: both stops failed and both following steps were executed
C16_Witness ==
  /\ Called("stop_postgres", FALSE, "step1")
  /\ Called("stop_postgres", FALSE, "step5")
  /\ Called("reset_postgres_auth", TRUE, "ok")
  /\ Called("create_secure_pg_hba", TRUE, "ok")
  /\ pc = "done"

\* the phase of main in which a call was made
Phase(c) == IF c.fn \in {"stop_postgres", "start_postgres"} THEN c.why ELSE c.fn

\* the number of calls of this run to fn
Count(fn) == Cardinality({i \in DOMAIN calls : calls[i].fn = fn})

\* C17: within a run no two calls are the same step: every function other
\* than stop_postgres and start_postgres is called at most once, failed or
\* not, and those two at most once per phase and at most twice.
C17_NoRetries ==
  /\ \A i, j \in DOMAIN calls :
       (i # j /\ calls[i].fn = calls[j].fn) =>
         /\ calls[i].fn \in {"stop_postgres", "start_postgres"}
         /\ Phase(calls[i]) # Phase(calls[j])
  /\ Count("stop_postgres") <= 2
  /\ Count("start_postgres") <= 2

\* C17 witness: a run that has ended with two stops and two starts, the
\* first stop and the last start having failed
C17_Witness ==
  /\ pc = "done"
  /\ Count("stop_postgres") = 2 /\ Count("start_postgres") = 2
  /\ Called("stop_postgres", FALSE, "step1")
  /\ Called("start_postgres", FALSE, "step5")

\* C18: when a run has ended Succeeded, the service is up and the policy it
\* read at its last start is the secure template.
C18_SucceededMeansSecureLoaded ==
  (pc = "done" /\ result = "Succeeded") => (running /\ loaded = secure_config)

\* C19 as stated: once reset_postgres_password has failed after its ALTER USER
\* took effect, the stored password is the new value in every later state of
\* the run, and when the run has ended it is Failed with the policy file
\* restored from the backup.
C19_RollbackRestoresPolicy ==
  AuxiliaryFailed =>
    /\ password = NewPassword
    /\ pc = "done" =>
         /\ result = "Failed"
         /\ hbaExists /\ hba = backup

\* C19 amended: once reset_postgres_password has failed after its ALTER USER
\* took effect, the stored password is the new value in every later state of
\* the run and the existence of testdb is as the failed call left it.  When
\* the run has ended it is Failed and the backup holds what the run found;
\* the policy file equals the backup if restore_postgres_auth succeeded, and
\* if it failed (line 317 ignores its result) the policy file is the trust
\* template or what the cut restore left of the backup's content.
C19_RollbackKeepsCredential ==
  AuxiliaryFailed =>
    /\ password = NewPassword
    /\ Called("reset_postgres_password", FALSE, "create_fail") => ~testdb
    /\ pc = "done" =>
         /\ result = "Failed"
         /\ backupExists /\ backup = preHba
         /\ \E i \in DOMAIN calls : calls[i].fn = "restore_postgres_auth"
         /\ Called("restore_postgres_auth", TRUE, "ok") =>
              (hbaExists /\ hba = backup /\ hba = preHba)
         /\ FailedCall("restore_postgres_auth") =>
              /\ hbaExists
              /\ hba \in {trust_config, <<>>} \cup PartialWrites(backup)

\* C19 witness: the lookup of testdb failed after the password was changed,
\* the rollback restored the policy file and the new password is in place
C19_Witness ==
  /\ Called("reset_postgres_password", FALSE, "select_fail")
  /\ Called("restore_postgres_auth", TRUE, "ok")
  /\ pc = "done" /\ result = "Failed"
  /\ hba = preHba /\ hba # trust_config
  /\ password = NewPassword
====
